---- MODULE Spec2Model ----
(***************************************************************************)
(* eda-cli (homeworks/HW04): the CLI commands `overview` and `report`      *)
(* (src/eda_cli/cli.py) and the HTTP endpoints POST /quality and           *)
(* POST /quality-from-csv (src/eda_cli/api.py), as one state machine.      *)
(*                                                                         *)
(* One behaviour is one invocation: a command or a request starts from     *)
(* "idle", walks through the statements of its handler and ends in "done"  *)
(* (normal return) or "failed" (an exception left the handler).            *)
(*                                                                         *)
(* Data abstraction.  A column is not kept value by value but by what the  *)
(* handlers and the statistics read from it: its length, the number of     *)
(* nulls, the number of distinct non-null values, whether its dtype is     *)
(* numeric, and the sample standard deviation of its non-null values in    *)
(* units of 1e-7.  Shares are compared as fractions, scores are kept in    *)
(* units of 1/60000 so that the penalty 1/6 and the rounding to 4 and 2    *)
(* decimals are exact integer operations.                                  *)
(*                                                                         *)
(* eda_cli/core.py and eda_cli/viz.py are imported by both files but are   *)
(* not part of the sources at hand; their functions are modelled from the  *)
(* design document (sections 4.1 - 4.5 and 6).                             *)
(***************************************************************************)
EXTENDS Integers, Sequences, FiniteSets, TLC

VARIABLES
    pc,         \* position in the running handler
    kind,       \* which command / endpoint runs: "none" before the start
    args,       \* the inputs of the invocation
    loaded,     \* TRUE once the handler holds a DataFrame
    df,         \* the DataFrame held by the handler
    calls,      \* the calls made so far, in order
    result,     \* CLI: "ok", or "BadParameter" for typer.BadParameter
    status,     \* HTTP: the status code of the response, 0 before it
    body,       \* HTTP: the JSON content of the response; CLI: what was echoed
    dirExisted, \* did out_dir exist before the command
    dirExists,  \* does out_dir exist now
    written,    \* the files of out_dir written by this run
    work,       \* the locals of report after the computation (lines 95-133)
    jsonOut,    \* the object dumped to summary.json
    mdOut       \* the figures written to report.md

vars == <<pc, kind, args, loaded, df, calls, result, status, body,
          dirExisted, dirExists, written, work, jsonOut, mdOut>>

-----------------------------------------------------------------------------
(* Bounds of the model *)

MaxCols == 2        \* most columns of a table
SmallRows == 1      \* tables have 0..SmallRows rows, or BigRows rows

-----------------------------------------------------------------------------
(* Program constants *)

HighCardinality == 50   \* cli.py:122  col.unique > 50
LowVarStd == 10         \* cli.py:129  col.std < 1e-6, in units of 1e-7
NoStd == -1             \* cli.py:129  col.std is None
ShareDen == 10          \* min_missing_share is given in tenths (0.0 .. 1.0)
HttpOk == 200
HttpBad == 400

\* test_core.py:73  n_rows = 51, one more than the cardinality threshold
BigRows == HighCardinality + 1

Max(a, b) == IF a >= b THEN a ELSE b

-----------------------------------------------------------------------------
(* Tables: what pandas builds from a CSV file or a JSON body *)

RowChoices == (0..SmallRows) \cup {BigRows}

NullChoices(n) == IF n <= SmallRows THEN 0..n ELSE {0, 1, n}

DistinctChoices(nn) ==
    IF nn = 0 THEN {0}
    ELSE IF nn <= SmallRows THEN 1..nn
    ELSE {d \in {1, HighCardinality, HighCardinality + 1} : d <= nn}

\* the sample standard deviation of the non-null values, in units of 1e-7:
\* 0 for a column of one repeated value, else just below or at the threshold
SpreadChoices(numeric, distinct) ==
    IF numeric /\ distinct >= 2 THEN {LowVarStd - 1, LowVarStd} ELSE {0}

\* pandas gives a column without rows the dtype object
NumericChoices(n) == IF n = 0 THEN {FALSE} ELSE BOOLEAN

\* the columns of length n, still without a name
ColumnsOfLen(n) ==
    UNION { UNION { UNION { {[len |-> n, numeric |-> num, nulls |-> nl,
                              distinct |-> d, spread |-> s] :
                                s \in SpreadChoices(num, d)} :
                            d \in DistinctChoices(n - nl)} :
                    nl \in NullChoices(n)} :
            num \in NumericChoices(n)}

\* column i of k is named k + 1 - i: the header is not in sorted order
Named(cols) ==
    [i \in 1..Len(cols) |->
        [name |-> Len(cols) + 1 - i, len |-> cols[i].len,
         numeric |-> cols[i].numeric, nulls |-> cols[i].nulls,
         distinct |-> cols[i].distinct, spread |-> cols[i].spread]]

\* the tables with 1..MaxCols columns, all columns of one length
Tables ==
    UNION { UNION { {Named(cs) : cs \in [1..k -> ColumnsOfLen(n)]} :
                    k \in 1..MaxCols} :
            n \in RowChoices}

\* a column of which only the length matters
PlainColumn(n) ==
    [len |-> n, numeric |-> FALSE, nulls |-> 0,
     distinct |-> IF n = 0 THEN 0 ELSE 1, spread |-> 0]

\* lists of different lengths under "columns"
RaggedColumns ==
    UNION { {Named([i \in 1..k |-> PlainColumn(ls[i])]) :
                ls \in {l \in [1..k -> RowChoices] :
                            \E i, j \in 1..k : l[i] # l[j]}} :
            k \in 2..MaxCols}

NoFrame == [n_rows |-> 0, columns |-> <<>>]

\* DataFrame.shape[0]
FrameRows(cols) == IF Len(cols) = 0 THEN 0 ELSE cols[1].len

\* api.py:32  pd.DataFrame(data["columns"]): raises KeyError without the key
\* and ValueError when the lists have different lengths
BuildFrame(data) ==
    IF ~data.hasColumns THEN [ok |-> FALSE, df |-> NoFrame]
    ELSE IF \E i, j \in 1..Len(data.columns) :
                data.columns[i].len # data.columns[j].len
         THEN [ok |-> FALSE, df |-> NoFrame]
         ELSE [ok |-> TRUE,
               df |-> [n_rows |-> FrameRows(data.columns),
                       columns |-> data.columns]]

\* cli.py:37 / api.py:56  pd.read_csv: raises on content that is no CSV
\* (an empty file included), else the table with the header's columns
ReadCsv(content) ==
    IF content.parses
    THEN [ok |-> TRUE,
          df |-> [n_rows |-> FrameRows(content.columns),
                  columns |-> content.columns]]
    ELSE [ok |-> FALSE, df |-> NoFrame]

\* a check of the columns alone, as `len(df.columns) == 0` would be
DfEmptyColumnsOnly(d) == Len(d.columns) = 0

\* DataFrame.empty: any axis of length 0
DfEmpty(d) == d.n_rows = 0 \/ Len(d.columns) = 0

\* the CSV contents: unparsable, or a table (a header alone is a table of 0 rows)
Garbled == [parses |-> FALSE, columns |-> <<>>]
CsvContents == {Garbled} \cup {[parses |-> TRUE, columns |-> t] : t \in Tables}

\* the JSON bodies of POST /quality
JsonBodies ==
    {[hasColumns |-> FALSE, columns |-> <<>>]}
    \cup {[hasColumns |-> TRUE, columns |-> t] :
            t \in Tables \cup RaggedColumns \cup {<<>>}}

-----------------------------------------------------------------------------
(* eda_cli/core.py, from the design document *)

RECURSIVE SeqCount(_, _)
\* how many entries of a sequence of booleans are TRUE
SeqCount(bs, i) ==
    IF i = 0 THEN 0 ELSE SeqCount(bs, i - 1) + (IF bs[i] THEN 1 ELSE 0)

RECURSIVE SeqMax(_, _)
\* the largest entry of a sequence of naturals, 0 for the empty one
SeqMax(ns, i) == IF i = 0 THEN 0 ELSE Max(ns[i], SeqMax(ns, i - 1))

\* 4.1  ColumnSummary of one column of a frame of n rows: non-null count,
\* distinct count, and the sample standard deviation, which is None for a
\* non-numeric column and for fewer than 2 non-null values
ColumnSummary(n, col) ==
    [name |-> col.name,
     is_numeric |-> col.numeric,
     non_null |-> n - col.nulls,
     unique |-> col.distinct,
     std |-> IF col.numeric /\ n - col.nulls >= 2 THEN col.spread ELSE NoStd]

\* 4.1  summarize_dataset
summarize_dataset(d) ==
    [n_rows |-> d.n_rows,
     n_cols |-> Len(d.columns),
     columns |-> [i \in 1..Len(d.columns) |->
                    ColumnSummary(d.n_rows, d.columns[i])]]

\* 4.2  missing_table: one entry per column, in column order; the empty
\* table when the frame has no rows.  missing_share is missing_count / n_rows
missing_table(d) ==
    IF d.n_rows = 0 THEN <<>>
    ELSE [i \in 1..Len(d.columns) |->
            [name |-> d.columns[i].name,
             missing_count |-> d.columns[i].nulls,
             n_rows |-> d.n_rows]]

\* 4.3  correlation_matrix: the numeric columns it spans, none when there
\* are fewer than 2 numeric columns
correlation_matrix(d) ==
    LET nums == {d.columns[i].name : i \in {j \in 1..Len(d.columns) :
                                                d.columns[j].numeric}}
    IN  IF Cardinality(nums) < 2 THEN {} ELSE nums

\* 4.4  top_categories: the non-numeric columns with a non-null value
top_categories(d) ==
    {d.columns[i].name : i \in {j \in 1..Len(d.columns) :
        ~d.columns[j].numeric /\ d.n_rows - d.columns[j].nulls > 0}}

\* 4.5  the configurable thresholds of the scorer
RowFloor == 2           \* too_few_rows: n_rows below the floor
ColCeiling == 1         \* too_many_columns: n_cols above the ceiling
MissingCeilingNum == 1  \* too_many_missing: max share above 1/2
MissingCeilingDen == 2
ScoreOne == 60000       \* the score 1.0
Penalty == 10000        \* one sixth of 1.0 per triggered flag

\* 4.5  compute_quality_flags(summary, missing_df)
compute_quality_flags(summary, missing_df) ==
    LET cs == summary.columns
        maxMissing == SeqMax([i \in 1..Len(missing_df) |->
                                missing_df[i].missing_count], Len(missing_df))
        rows == IF Len(missing_df) = 0 THEN 1 ELSE missing_df[1].n_rows
        few == summary.n_rows < RowFloor
        many == summary.n_cols > ColCeiling
        holes == maxMissing * MissingCeilingDen > MissingCeilingNum * rows
        const == \E i \in 1..Len(cs) : cs[i].non_null > 0 /\ cs[i].unique = 1
        card == \E i \in 1..Len(cs) :
                    ~cs[i].is_numeric /\ cs[i].non_null > 0
                    /\ cs[i].unique > HighCardinality
        flat == \E i \in 1..Len(cs) :
                    cs[i].is_numeric /\ cs[i].non_null > 1
                    /\ cs[i].std # NoStd /\ cs[i].std < LowVarStd
        hits == SeqCount(<<few, many, holes, const, card, flat>>, 6)
    IN  [quality_score |-> Max(0, ScoreOne - Penalty * hits),
         max_missing_share |-> [num |-> maxMissing, den |-> rows],
         too_few_rows |-> few,
         too_many_columns |-> many,
         too_many_missing |-> holes,
         has_constant_columns |-> const,
         has_high_cardinality_categoricals |-> card,
         has_numeric_columns_with_low_variation |-> flat]

-----------------------------------------------------------------------------
(* cli.py: the pure parts of report *)

\* [x.name for x in seq]
ColumnNames(seq) == [i \in 1..Len(seq) |-> seq[i].name]

Range(seq) == {seq[i] : i \in 1..Len(seq)}

RECURSIVE Sorted(_)
\* sorted(set): the elements in ascending order
Sorted(S) ==
    IF S = {} THEN <<>>
    ELSE LET m == CHOOSE x \in S : \A y \in S : x <= y
         IN  <<m>> \o Sorted(S \ {m})

\* cli.py:107  missing_df["missing_share"] >= min_missing_share, the share
\* being missing_count / n_rows and the threshold mms / ShareDen
ShareSelected(row, mms) == row.missing_count * ShareDen >= mms * row.n_rows

\* cli.py:106-110  problematic_missing_cols
ProblematicMissingCols(missing_df, mms) ==
    IF Len(missing_df) # 0
    THEN LET Sel(row) == ShareSelected(row, mms)
         IN  ColumnNames(SelectSeq(missing_df, Sel))
    ELSE <<>>

\* `col.unique <= 1` without the non_null test
ConstantColsAtMostOne(summary) ==
    LET Sel(col) == col.unique <= 1
    IN  ColumnNames(SelectSeq(summary.columns, Sel))

\* cli.py:116  constant_cols
ConstantCols(summary) ==
    LET Sel(col) == col.unique = 1 /\ col.non_null > 0
    IN  ColumnNames(SelectSeq(summary.columns, Sel))

\* cli.py:120-123  high_card_cols
HighCardCols(summary) ==
    LET Sel(col) == (~col.is_numeric) /\ col.unique > HighCardinality
                    /\ col.non_null > 0
    IN  ColumnNames(SelectSeq(summary.columns, Sel))

\* cli.py:127-130  low_var_cols
LowVarCols(summary) ==
    LET Sel(col) == col.is_numeric /\ col.std # NoStd /\ col.std < LowVarStd
                    /\ col.non_null > 1
    IN  ColumnNames(SelectSeq(summary.columns, Sel))

\* the four lists chained, neither made a set nor sorted
ProblematicColumnsChained(pm, cc, hc, lv) == pm \o cc \o hc \o lv

\* cli.py:113-133  problematic_columns: the set of the four lists, sorted
ProblematicColumns(pm, cc, hc, lv) ==
    Sorted(Range(pm) \cup Range(cc) \cup Range(hc) \cup Range(lv))

\* the tables written without the two emptiness tests
TableArtifactsAlways(missing_df, corr_df) ==
    {"summary.csv", "missing.csv", "correlation.csv", "top_categories/"}

\* cli.py:136-142  the tabular artifacts; save_top_categories_tables makes
\* the folder top_categories/ (viz.py, from the design document)
TableArtifacts(missing_df, corr_df) ==
    {"summary.csv"}
    \cup (IF Len(missing_df) # 0 THEN {"missing.csv"} ELSE {})
    \cup (IF corr_df # {} THEN {"correlation.csv"} ELSE {})
    \cup {"top_categories/"}

\* round(x, 4) of a score in units of 1/60000: the nearest multiple of 1e-4
Round4(x) == ((x + 3) \div 6) * 6

\* f"{x:.2f}": the nearest multiple of 1e-2
Round2(x) == ((x + 300) \div 600) * 600

FlagKeys ==
    {"too_few_rows", "too_many_columns", "too_many_missing",
     "has_constant_columns", "has_high_cardinality_categoricals",
     "has_numeric_columns_with_low_variation"}

\* cli.py:152-155  the entries of quality_flags but the two figures
JsonFlags(quality_flags) ==
    [k \in DOMAIN quality_flags \ {"quality_score", "max_missing_share"} |->
        quality_flags[k]]

\* the score written as a percentage
JsonSummaryDataPercent(summary, quality_flags, problematic_columns) ==
    [n_rows |-> summary.n_rows,
     n_cols |-> summary.n_cols,
     quality_score |-> Round4(quality_flags.quality_score * 100),
     problematic_columns |-> problematic_columns,
     flags |-> [k \in DOMAIN quality_flags
                        \ {"quality_score", "max_missing_share"} |->
                    quality_flags[k]]]

\* cli.py:147-156  json_summary_data
JsonSummaryData(summary, quality_flags, problematic_columns) ==
    [n_rows |-> summary.n_rows,
     n_cols |-> summary.n_cols,
     quality_score |-> Round4(quality_flags.quality_score),
     problematic_columns |-> problematic_columns,
     flags |-> JsonFlags(quality_flags)]

\* cli.py:165-177  the figures of report.md
MarkdownFigures(summary, quality_flags, pm) ==
    [n_rows |-> summary.n_rows,
     n_cols |-> summary.n_cols,
     quality_score |-> Round2(quality_flags.quality_score),
     problematic_missing_cols |-> pm]

\* cli.py:95-133  the locals of report after the computation
ReportWork(d, mms) ==
    LET summary == summarize_dataset(d)
        missing_df == missing_table(d)
        pm == ProblematicMissingCols(missing_df, mms)
        cc == ConstantCols(summary)
        hc == HighCardCols(summary)
        lv == LowVarCols(summary)
    IN  [summary |-> summary,
         missing_df |-> missing_df,
         corr_df |-> correlation_matrix(d),
         top_cats |-> top_categories(d),
         quality_flags |-> compute_quality_flags(summary, missing_df),
         problematic_missing_cols |-> pm,
         constant_cols |-> cc,
         high_card_cols |-> hc,
         low_var_cols |-> lv,
         problematic_columns |-> ProblematicColumns(pm, cc, hc, lv)]

\* a loader that swallows the failure and hands back an empty frame
LoadCsvSwallow(file) ==
    IF ~file.exists THEN [ok |-> TRUE, df |-> NoFrame]
    ELSE [ok |-> TRUE, df |-> ReadCsv(file.content).df]

\* cli.py:29-39  _load_csv: BadParameter when the file is missing or
\* read_csv raises, else the frame read_csv returns
LoadCsv(file) ==
    IF ~file.exists THEN [ok |-> FALSE, df |-> NoFrame]
    ELSE ReadCsv(file.content)

-----------------------------------------------------------------------------
(* api.py: the extension check *)

\* file names, letter by letter
FileNames ==
    { <<"d", ".", "c", "s", "v">>,
      <<"d", ".", "t", "x", "t">>,
      <<"d", ".", "c", "s", "v", "x">>,
      <<"d", ".", "C", "S", "V">>,
      <<"c", "s", "v">>,
      <<>> }

\* str.endswith(suffix)
EndsWith(s, suffix) ==
    /\ Len(s) >= Len(suffix)
    /\ SubSeq(s, Len(s) - Len(suffix) + 1, Len(s)) = suffix

\* `'.csv' in name or '.txt' in name`
ExtensionContained(filename) ==
    \E i \in 1..Len(filename) :
        /\ i + 3 <= Len(filename)
        /\ SubSeq(filename, i, i + 3) \in
                {<<".", "c", "s", "v">>, <<".", "t", "x", "t">>}

\* api.py:51  file.filename.endswith(('.csv', '.txt'))
ExtensionAllowed(filename) ==
    \/ EndsWith(filename, <<".", "c", "s", "v">>)
    \/ EndsWith(filename, <<".", "t", "x", "t">>)

-----------------------------------------------------------------------------
(* The inputs *)

\* --min-missing-share in tenths: 0.0, the default 0.1, 0.5 and 1.0
MmsChoices == {0, 1, 5, ShareDen}

\* the file at <path>: absent, or present with some content
CliFiles ==
    {[exists |-> FALSE, content |-> Garbled]}
    \cup {[exists |-> TRUE, content |-> c] : c \in CsvContents}

NoBody == [detail |-> ""]
NoWork == [summary |-> [n_rows |-> 0, n_cols |-> 0, columns |-> <<>>]]
NoJson == [n_rows |-> -1]
NoMd == [n_rows |-> -1]

Init ==
    /\ pc = "idle"
    /\ kind = "none"
    /\ args = [none |-> TRUE]
    /\ loaded = FALSE
    /\ df = NoFrame
    /\ calls = <<>>
    /\ result = "none"
    /\ status = 0
    /\ body = NoBody
    /\ dirExisted = FALSE
    /\ dirExists = FALSE
    /\ written = {}
    /\ work = NoWork
    /\ jsonOut = NoJson
    /\ mdOut = NoMd

-----------------------------------------------------------------------------
(* cli.py: overview *)

OverviewStart ==
    /\ pc = "idle"
    /\ \E f \in CliFiles :
        /\ kind' = "overview"
        /\ args' = [file |-> f]
    /\ pc' = "o_load"
    /\ UNCHANGED <<loaded, df, calls, result, status, body, dirExisted, dirExists,
                   written, work, jsonOut, mdOut>>

\* cli.py:54  df = _load_csv(...)
OverviewLoad ==
    /\ pc = "o_load"
    /\ LET r == LoadCsv(args.file)
       IN  /\ calls' = calls \o (IF args.file.exists
                                 THEN <<"_load_csv", "read_csv">>
                                 ELSE <<"_load_csv">>)
           /\ IF r.ok
              THEN /\ loaded' = TRUE
                   /\ df' = r.df
                   /\ pc' = "o_print"
                   /\ UNCHANGED result
              ELSE /\ result' = "BadParameter"
                   /\ pc' = "failed"
                   /\ UNCHANGED <<loaded, df>>
    /\ UNCHANGED <<kind, args, status, body, dirExisted, dirExists, written, work,
                   jsonOut, mdOut>>

\* cli.py:55-61  summarize, flatten, echo
OverviewPrint ==
    /\ pc = "o_print"
    /\ calls' = calls \o <<"summarize_dataset", "flatten_summary_for_print">>
    /\ body' = [n_rows |-> summarize_dataset(df).n_rows,
                n_cols |-> summarize_dataset(df).n_cols]
    /\ result' = "ok"
    /\ pc' = "done"
    /\ UNCHANGED <<kind, args, loaded, df, status, dirExisted, dirExists,
                   written, work, jsonOut, mdOut>>

-----------------------------------------------------------------------------
(* cli.py: report *)

ReportStart ==
    /\ pc = "idle"
    /\ \E f \in CliFiles, m \in MmsChoices, j \in BOOLEAN, e \in BOOLEAN :
        /\ kind' = "report"
        /\ args' = [file |-> f, min_missing_share |-> m, json_summary |-> j]
        /\ dirExisted' = e
        /\ dirExists' = e
    /\ pc' = "r_mkdir"
    /\ UNCHANGED <<loaded, df, calls, result, status, body, written, work, jsonOut,
                   mdOut>>

\* cli.py:89-90  out_root.mkdir(parents=True, exist_ok=True)
ReportMkdir ==
    /\ pc = "r_mkdir"
    /\ calls' = Append(calls, "mkdir")
    /\ dirExists' = TRUE
    /\ pc' = "r_load"
    /\ UNCHANGED <<kind, args, loaded, df, result, status, body, dirExisted, written,
                   work, jsonOut, mdOut>>

\* cli.py:92  df = _load_csv(...)
ReportLoad ==
    /\ pc = "r_load"
    /\ LET r == LoadCsv(args.file)
       IN  /\ calls' = calls \o (IF args.file.exists
                                 THEN <<"_load_csv", "read_csv">>
                                 ELSE <<"_load_csv">>)
           /\ IF r.ok
              THEN /\ loaded' = TRUE
                   /\ df' = r.df
                   /\ pc' = "r_compute"
                   /\ UNCHANGED result
              ELSE /\ result' = "BadParameter"
                   /\ pc' = "failed"
                   /\ UNCHANGED <<loaded, df>>
    /\ UNCHANGED <<kind, args, status, body, dirExisted, dirExists, written, work,
                   jsonOut, mdOut>>

\* cli.py:95-133  the statistics, the flags and the problematic columns
ReportCompute ==
    /\ pc = "r_compute"
    /\ calls' = calls \o <<"summarize_dataset", "flatten_summary_for_print",
                           "missing_table", "correlation_matrix",
                           "top_categories", "compute_quality_flags">>
    /\ work' = ReportWork(df, args.min_missing_share)
    /\ pc' = "r_tables"
    /\ UNCHANGED <<kind, args, loaded, df, result, status, body, dirExisted,
                   dirExists, written, jsonOut, mdOut>>

\* cli.py:136-142  summary.csv, missing.csv, correlation.csv, top_categories/
\* and the bar charts
ReportTables ==
    /\ pc = "r_tables"
    /\ calls' = calls \o <<"save_top_categories_tables",
                           "plot_categorical_bars">>
    /\ written' = written \cup TableArtifacts(work.missing_df, work.corr_df)
                    \cup (IF work.top_cats # {} THEN {"bar_*.png"} ELSE {})
    /\ pc' = "r_json"
    /\ UNCHANGED <<kind, args, loaded, df, result, status, body, dirExisted,
                   dirExists, work, jsonOut, mdOut>>

\* cli.py:145-158  summary.json, when asked for
ReportJson ==
    /\ pc = "r_json"
    /\ IF args.json_summary
       THEN /\ jsonOut' = JsonSummaryData(work.summary, work.quality_flags,
                                          work.problematic_columns)
            /\ written' = written \cup {"summary.json"}
       ELSE UNCHANGED <<jsonOut, written>>
    /\ pc' = "r_md"
    /\ UNCHANGED <<kind, args, loaded, df, calls, result, status, body, dirExisted,
                   dirExists, work, mdOut>>

\* cli.py:161-206  report.md
ReportMarkdown ==
    /\ pc = "r_md"
    /\ mdOut' = MarkdownFigures(work.summary, work.quality_flags,
                                work.problematic_missing_cols)
    /\ written' = written \cup {"report.md"}
    /\ pc' = "r_plots"
    /\ UNCHANGED <<kind, args, loaded, df, calls, result, status, body, dirExisted,
                   dirExists, work, jsonOut>>

\* cli.py:209-216  the three plotting calls and the closing echo.  Which
\* pictures appear is decided in viz.py; here: histograms when a column is
\* numeric, the missing matrix for a non-empty frame, the heatmap when
\* there is a correlation matrix
ReportPlots ==
    /\ pc = "r_plots"
    /\ calls' = calls \o <<"plot_histograms_per_column",
                           "plot_missing_matrix", "plot_correlation_heatmap">>
    /\ written' = written
            \cup (IF \E i \in 1..Len(df.columns) : df.columns[i].numeric
                  THEN {"hist_*.png"} ELSE {})
            \cup (IF ~DfEmpty(df) THEN {"missing_matrix.png"} ELSE {})
            \cup (IF work.corr_df # {} THEN {"correlation_heatmap.png"}
                  ELSE {})
    /\ result' = "ok"
    /\ pc' = "done"
    /\ UNCHANGED <<kind, args, loaded, df, status, body, dirExisted, dirExists, work,
                   jsonOut, mdOut>>

-----------------------------------------------------------------------------
(* api.py: POST /quality *)

QualityStart ==
    /\ pc = "idle"
    /\ \E b \in JsonBodies :
        /\ kind' = "quality"
        /\ args' = [data |-> b]
    /\ pc' = "q_build"
    /\ UNCHANGED <<loaded, df, calls, result, status, body, dirExisted, dirExists,
                   written, work, jsonOut, mdOut>>

\* api.py:31-34  build the frame, 400 when that raises
QualityBuild ==
    /\ pc = "q_build"
    /\ calls' = Append(calls, "DataFrame")
    /\ LET r == BuildFrame(args.data)
       IN  IF r.ok
           THEN /\ loaded' = TRUE
                /\ df' = r.df
                /\ pc' = "q_empty"
                /\ UNCHANGED <<status, body>>
           ELSE /\ status' = HttpBad
                /\ body' = [detail |-> "Invalid input data"]
                /\ pc' = "failed"
                /\ UNCHANGED <<loaded, df>>
    /\ UNCHANGED <<kind, args, result, dirExisted, dirExists, written, work, jsonOut,
                   mdOut>>

\* api.py:36-37  400 on an empty frame
QualityEmpty ==
    /\ pc = "q_empty"
    /\ IF DfEmpty(df)
       THEN /\ status' = HttpBad
            /\ body' = [detail |-> "Empty dataset"]
            /\ pc' = "failed"
       ELSE /\ pc' = "q_flags"
            /\ UNCHANGED <<status, body>>
    /\ UNCHANGED <<kind, args, loaded, df, calls, result, dirExisted, dirExists,
                   written, work, jsonOut, mdOut>>

\* api.py:39-43  the flags as the JSON content of a 200
QualityFlags ==
    /\ pc = "q_flags"
    /\ calls' = calls \o <<"summarize_dataset", "missing_table",
                           "compute_quality_flags">>
    /\ body' = compute_quality_flags(summarize_dataset(df), missing_table(df))
    /\ status' = HttpOk
    /\ pc' = "done"
    /\ UNCHANGED <<kind, args, loaded, df, result, dirExisted, dirExists, written,
                   work, jsonOut, mdOut>>

-----------------------------------------------------------------------------
(* api.py: POST /quality-from-csv *)

CsvStart ==
    /\ pc = "idle"
    /\ \E fn \in FileNames, c \in CsvContents :
        /\ kind' = "quality-from-csv"
        /\ args' = [filename |-> fn, content |-> c]
    /\ pc' = "c_ext"
    /\ UNCHANGED <<loaded, df, calls, result, status, body, dirExisted, dirExists,
                   written, work, jsonOut, mdOut>>

\* api.py:51-52  400 unless the name ends with .csv or .txt
CsvExtension ==
    /\ pc = "c_ext"
    /\ calls' = Append(calls, "endswith")
    /\ IF ~ExtensionAllowed(args.filename)
       THEN /\ status' = HttpBad
            /\ body' = [detail |-> "Only CSV files are allowed"]
            /\ pc' = "failed"
       ELSE /\ pc' = "c_read"
            /\ UNCHANGED <<status, body>>
    /\ UNCHANGED <<kind, args, loaded, df, result, dirExisted, dirExists, written,
                   work, jsonOut, mdOut>>

\* api.py:54-58  read the upload and parse it, 400 when that raises
CsvRead ==
    /\ pc = "c_read"
    /\ calls' = calls \o <<"file.read", "read_csv">>
    /\ LET r == ReadCsv(args.content)
       IN  IF r.ok
           THEN /\ loaded' = TRUE
                /\ df' = r.df
                /\ pc' = "c_empty"
                /\ UNCHANGED <<status, body>>
           ELSE /\ status' = HttpBad
                /\ body' = [detail |-> "Failed to parse CSV"]
                /\ pc' = "failed"
                /\ UNCHANGED <<loaded, df>>
    /\ UNCHANGED <<kind, args, result, dirExisted, dirExists, written, work, jsonOut,
                   mdOut>>

\* api.py:60-61  400 on an empty frame
CsvEmpty ==
    /\ pc = "c_empty"
    /\ IF DfEmpty(df)
       THEN /\ status' = HttpBad
            /\ body' = [detail |-> "Empty dataset"]
            /\ pc' = "failed"
       ELSE /\ pc' = "c_flags"
            /\ UNCHANGED <<status, body>>
    /\ UNCHANGED <<kind, args, loaded, df, calls, result, dirExisted, dirExists,
                   written, work, jsonOut, mdOut>>

\* api.py:63-67  the flags as the JSON content of a 200
CsvFlags ==
    /\ pc = "c_flags"
    /\ calls' = calls \o <<"summarize_dataset", "missing_table",
                           "compute_quality_flags">>
    /\ body' = compute_quality_flags(summarize_dataset(df), missing_table(df))
    /\ status' = HttpOk
    /\ pc' = "done"
    /\ UNCHANGED <<kind, args, loaded, df, result, dirExisted, dirExists, written,
                   work, jsonOut, mdOut>>

-----------------------------------------------------------------------------

Next ==
    \/ OverviewStart \/ OverviewLoad \/ OverviewPrint
    \/ ReportStart \/ ReportMkdir \/ ReportLoad \/ ReportCompute
    \/ ReportTables \/ ReportJson \/ ReportMarkdown \/ ReportPlots
    \/ QualityStart \/ QualityBuild \/ QualityEmpty \/ QualityFlags
    \/ CsvStart \/ CsvExtension \/ CsvRead \/ CsvEmpty \/ CsvFlags

Spec == Init /\ [][Next]_vars

-----------------------------------------------------------------------------
(* Properties *)

CoreCalls == {"summarize_dataset", "missing_table", "compute_quality_flags"}

LaterSteps ==
    CoreCalls \cup {"flatten_summary_for_print", "correlation_matrix",
                    "top_categories", "save_top_categories_tables",
                    "plot_categorical_bars", "plot_histograms_per_column",
                    "plot_missing_matrix", "plot_correlation_heatmap"}

Called(f) == \E i \in 1..Len(calls) : calls[i] = f
TimesCalled(f) == Cardinality({i \in 1..Len(calls) : calls[i] = f})

Ended == pc \in {"done", "failed"}
IsApi == kind \in {"quality", "quality-from-csv"}
IsCli == kind \in {"overview", "report"}
Computed == kind = "report" /\ pc \in {"r_tables", "r_json", "r_md",
                                      "r_plots", "done"}

\* the columns the request carries, and whether they make a table
RequestColumns ==
    IF kind = "quality" THEN args.data.columns ELSE args.content.columns
RequestMalformed ==
    IF kind = "quality"
    THEN \/ ~args.data.hasColumns
         \/ \E i, j \in 1..Len(args.data.columns) :
                args.data.columns[i].len # args.data.columns[j].len
    ELSE ~args.content.parses
RequestEmpty ==
    \/ Len(RequestColumns) = 0
    \/ \A i \in 1..Len(RequestColumns) : RequestColumns[i].len = 0

\* C1: on both POST endpoints a 200 with the quality flags is answered only
\* for a request whose table was built and is not empty; a malformed body
\* and an empty dataset (0 rows or 0 columns) are answered with 400 and
\* summarize_dataset, missing_table and compute_quality_flags are not called.
QualityEndpointsRejectBadInput ==
    IsApi =>
        /\ status = HttpOk =>
              /\ ~RequestMalformed /\ ~RequestEmpty
              /\ loaded /\ df.columns = RequestColumns
              /\ "quality_score" \in DOMAIN body
        /\ (RequestMalformed \/ RequestEmpty) =>
              /\ \A f \in CoreCalls : ~Called(f)
              /\ Ended => status = HttpBad /\ pc = "failed"

\* a CSV that parses to a header without rows was answered with 400
EmptyCsvRejected ==
    /\ kind = "quality-from-csv" /\ pc = "failed" /\ status = HttpBad
    /\ args.content.parses /\ Len(args.content.columns) > 0
    /\ loaded /\ df.n_rows = 0
    /\ body.detail = "Empty dataset"

\* the last four letters of the uploaded file's name are .csv or .txt
NameHasCsvOrTxtSuffix ==
    LET n == args.filename
    IN  /\ Len(n) >= 4
        /\ <<n[Len(n) - 3], n[Len(n) - 2], n[Len(n) - 1], n[Len(n)]>> \in
                {<<".", "c", "s", "v">>, <<".", "t", "x", "t">>}

\* C2: POST /quality-from-csv answers 400 for every file whose name does not
\* end with .csv or .txt, whatever its content, and the upload is neither
\* read nor parsed; on every path the extension check comes before the read.
ExtensionCheckedBeforeRead ==
    kind = "quality-from-csv" =>
        /\ ~NameHasCsvOrTxtSuffix =>
              /\ ~Called("file.read") /\ ~Called("read_csv") /\ ~loaded
              /\ pc # "c_ext" => pc = "failed" /\ status = HttpBad
        /\ Called("file.read") =>
              /\ calls[1] = "endswith"
              /\ NameHasCsvOrTxtSuffix

\* a well-formed table uploaded under a name that has .csv inside but not
\* at its end was refused
WrongExtensionRefused ==
    /\ kind = "quality-from-csv" /\ pc = "failed" /\ status = HttpBad
    /\ args.filename = <<"d", ".", "c", "s", "v", "x">>
    /\ args.content.parses /\ FrameRows(args.content.columns) > 0
    /\ calls = <<"endswith">>

\* C3: a CSV that loads with 0 rows ends overview and report with a
\* parameter error, and summarize_dataset is not called.
EmptyDatasetRejectedByCli ==
    (IsCli /\ args.file.exists /\ args.file.content.parses
           /\ FrameRows(args.file.content.columns) = 0) =>
        /\ ~Called("summarize_dataset")
        /\ Ended => result = "BadParameter"

\* C4: the quality_score computed by compute_quality_flags, written to
\* summary.json and report.md and returned by the endpoints lies in [0, 1].
QualityScoreInUnitInterval ==
    /\ Computed => work.quality_flags.quality_score \in 0..ScoreOne
    /\ "summary.json" \in written => jsonOut.quality_score \in 0..ScoreOne
    /\ "report.md" \in written => mdOut.quality_score \in 0..ScoreOne
    /\ (IsApi /\ status = HttpOk) => body.quality_score \in 0..ScoreOne

\* a report with summary.json whose dataset triggered at least three flags
LowScoreReported ==
    /\ kind = "report" /\ pc = "done"
    /\ "summary.json" \in written
    /\ work.quality_flags.quality_score <= ScoreOne - 3 * Penalty
    /\ jsonOut.quality_score < ScoreOne

\* C5: each column-level flag is true exactly when a column meets its
\* criterion, hence exactly when the matching list of report is not empty,
\* and a true flag puts the quality_score strictly below 1.0.
ColumnFlagsMatchLists ==
    Computed =>
        LET f == work.quality_flags
            cs == work.summary.columns
            I == 1..Len(cs)
        IN  /\ f.has_constant_columns <=>
                  \E i \in I : cs[i].non_null > 0 /\ cs[i].unique = 1
            /\ f.has_high_cardinality_categoricals <=>
                  \E i \in I : ~cs[i].is_numeric /\ cs[i].non_null > 0
                               /\ cs[i].unique > 50
            /\ f.has_numeric_columns_with_low_variation <=>
                  \E i \in I : cs[i].is_numeric /\ cs[i].non_null > 1
                               /\ cs[i].std # NoStd /\ cs[i].std < 10
            /\ f.has_constant_columns <=> work.constant_cols # <<>>
            /\ f.has_high_cardinality_categoricals <=>
                  work.high_card_cols # <<>>
            /\ f.has_numeric_columns_with_low_variation <=>
                  work.low_var_cols # <<>>
            /\ (\/ f.has_constant_columns
                \/ f.has_high_cardinality_categoricals
                \/ f.has_numeric_columns_with_low_variation) =>
                  f.quality_score < ScoreOne

\* a dataset for which the three flags are true
AllColumnFlagsRaised ==
    /\ Computed
    /\ work.quality_flags.has_constant_columns
    /\ work.quality_flags.has_high_cardinality_categoricals
    /\ work.quality_flags.has_numeric_columns_with_low_variation
    /\ work.constant_cols # <<>>
    /\ work.high_card_cols # <<>>
    /\ work.low_var_cols # <<>>

LoadFails == IsCli /\ (~args.file.exists \/ ~args.file.content.parses)

\* C6: when the load fails in the CLI the command ends with a parameter
\* error, the load is not tried again, no later step runs and no file of
\* the report bundle is written.
NoPartialResultsOnFailedLoad ==
    LoadFails =>
        /\ TimesCalled("_load_csv") <= 1
        /\ TimesCalled("read_csv") <= 1
        /\ \A f \in LaterSteps : ~Called(f)
        /\ written = {} /\ jsonOut = NoJson /\ mdOut = NoMd
        /\ ~loaded
        /\ Called("_load_csv") => pc = "failed" /\ result = "BadParameter"

\* report was given a file that read_csv cannot parse, and has ended
ReportFailedOnGarbledFile ==
    /\ kind = "report" /\ pc = "failed"
    /\ args.file.exists /\ ~args.file.content.parses
    /\ calls = <<"mkdir", "_load_csv", "read_csv">>

\* C7 as stated, for the datasets that have rows: every completed report
\* wrote summary.csv, missing.csv, correlation.csv, report.md and
\* top_categories/.
ReportLeavesEveryTable ==
    (kind = "report" /\ pc = "done" /\ df.n_rows > 0) =>
        {"summary.csv", "missing.csv", "correlation.csv", "report.md",
         "top_categories/"} \subseteq written

\* C7, amended: every completed report wrote summary.csv, report.md and
\* top_categories/; it wrote missing.csv exactly when the missing table is
\* not empty and correlation.csv exactly when the correlation matrix is not
\* empty.
ReportLeavesNonEmptyTables ==
    (kind = "report" /\ pc = "done") =>
        /\ {"summary.csv", "report.md", "top_categories/"} \subseteq written
        /\ "missing.csv" \in written <=> work.missing_df # <<>>
        /\ "correlation.csv" \in written <=> work.corr_df # {}

\* a completed report over a dataset with rows and fewer than 2 numeric
\* columns: no correlation.csv
ReportWithoutCorrelation ==
    /\ kind = "report" /\ pc = "done"
    /\ df.n_rows > 0
    /\ Cardinality({i \in 1..Len(df.columns) : df.columns[i].numeric}) < 2
    /\ "correlation.csv" \notin written
    /\ "missing.csv" \in written

\* the columns of the summary that report counts as problematic
ProblematicBySummary ==
    LET cs == work.summary.columns
        n == work.summary.n_rows
        Missing(i) == \E r \in 1..Len(work.missing_df) :
                        /\ work.missing_df[r].name = cs[i].name
                        /\ work.missing_df[r].missing_count * ShareDen
                                >= args.min_missing_share * n
        Constant(i) == cs[i].unique = 1 /\ cs[i].non_null > 0
        HighCard(i) == ~cs[i].is_numeric /\ cs[i].unique > 50
                       /\ cs[i].non_null > 0
        LowVar(i) == cs[i].is_numeric /\ cs[i].std # NoStd /\ cs[i].std < 10
                     /\ cs[i].non_null > 1
    IN  {cs[i].name : i \in {j \in 1..Len(cs) :
            Missing(j) \/ Constant(j) \/ HighCard(j) \/ LowVar(j)}}

\* C8: report writes summary.json if and only if --json-summary is given;
\* it has exactly the keys n_rows, n_cols, quality_score,
\* problematic_columns and flags; flags holds every quality flag except
\* quality_score and max_missing_share; problematic_columns is sorted,
\* without duplicates, and is the union of the four kinds of problematic
\* columns.
JsonSummaryWellFormed ==
    kind = "report" =>
        /\ "summary.json" \in written => args.json_summary
        /\ (pc \in {"r_md", "r_plots", "done"} /\ args.json_summary) =>
              "summary.json" \in written
        /\ "summary.json" \notin written => jsonOut = NoJson
        /\ "summary.json" \in written =>
              LET pcs == jsonOut.problematic_columns
              IN  /\ DOMAIN jsonOut = {"n_rows", "n_cols", "quality_score",
                                       "problematic_columns", "flags"}
                  /\ DOMAIN jsonOut.flags =
                        DOMAIN work.quality_flags
                            \ {"quality_score", "max_missing_share"}
                  /\ DOMAIN jsonOut.flags = FlagKeys
                  /\ \A k \in DOMAIN jsonOut.flags :
                        jsonOut.flags[k] = work.quality_flags[k]
                  /\ \A i \in 1..Len(pcs) - 1 : pcs[i] < pcs[i + 1]
                  /\ {pcs[i] : i \in 1..Len(pcs)} = ProblematicBySummary
                  /\ jsonOut.n_rows = df.n_rows
                  /\ jsonOut.n_cols = Len(df.columns)

\* summary.json lists two columns, one of them problematic on two counts
JsonListsSeveralColumns ==
    /\ kind = "report" /\ pc = "done" /\ args.json_summary
    /\ "summary.json" \in written
    /\ Len(jsonOut.problematic_columns) >= 2
    /\ \E i \in 1..Len(work.constant_cols) :
            \E j \in 1..Len(work.low_var_cols) :
                work.constant_cols[i] = work.low_var_cols[j]

\* C9: a column is listed as problematic by missing share exactly when its
\* missing_share is strictly greater than min_missing_share.
ListedIffShareAboveThreshold ==
    Computed =>
        \A i \in 1..Len(df.columns) :
            (\E k \in 1..Len(work.problematic_missing_cols) :
                work.problematic_missing_cols[k] = df.columns[i].name)
            <=> (df.columns[i].nulls * ShareDen
                    > args.min_missing_share * df.n_rows)

\* C10: report creates out_dir only after _load_csv has returned a
\* dataset, so a run that fails at load leaves the file system as it was.
OutDirCreatedAfterLoad ==
    kind = "report" =>
        /\ dirExists # dirExisted => loaded
        /\ pc = "failed" => (dirExists = dirExisted /\ written = {})

====
